---- MODULE Spec2Model ----
(***************************************************************************)
(* Certificate API: the image-capable service (src/index.js) and the       *)
(* earlier basic service (src/unnamed/part_000).                           *)
(*                                                                         *)
(* A JSON value is a tuple of strings whose head is its type:              *)
(*   <<"undefined">>  <<"null">>  <<"number", "0">>  <<"boolean", "false">>*)
(*   <<"string", t1, ..., tn>>   the string t1 t2 ... tn (n = 0: "")       *)
(*   <<"array", e1, ..., en>>    the array of the strings e1 ... en        *)
(* A string is cut in tokens only where a regular expression has to look   *)
(* inside it (the e-mail address); every other string is one token.        *)
(***************************************************************************)
EXTENDS Integers, Sequences, FiniteSets, TLC

\* Requests handled in one run of Spec (arrival order 1..NumReq).
NumReq == 2

----------------------------------------------------------------------------
\* JSON values

Undefined == <<"undefined">>
Null == <<"null">>
EmptyString == <<"string">>
Zero == <<"number", "0">>
False == <<"boolean", "false">>
Str(s) == <<"string", s>>
Arr(ids) == <<"array">> \o ids

\* JavaScript truthiness (!v): the falsy values among the ones above.
Falsy(v) == v \in {Undefined, Null, EmptyString, Zero, False}

\* Array.isArray(v)
IsArray(v) == Head(v) = "array"

Min(S) == CHOOSE x \in S : \A y \in S : x <= y

\* The property names a request body can carry.
Fields ==
  {"name", "email", "templateId", "badgeId", "expiryDate", "signatoryIds",
   "issuanceDate", "certificateNumber", "recipientName", "note"}

\* Object.keys(body): JSON carries no undefined, an absent key reads undefined.
Keys(body) == {f \in Fields : body[f] # Undefined}

----------------------------------------------------------------------------
\* Catalogs

templatesImage ==
  << [id |-> "temp-001", name |-> "Professional Certification",
      image |-> "/images/temp-001.jpg",
      requiredFields |-> <<"badgeId", "expiryDate", "signatoryIds",
                           "issuanceDate", "certificateNumber", "recipientName">>],
     [id |-> "temp-002", name |-> "Course Completion",
      image |-> "/images/temp-002.jpg",
      requiredFields |-> <<"issuanceDate", "expiryDate", "certificateNumber",
                           "recipientName">>],
     [id |-> "temp-003", name |-> "Award of Excellence",
      image |-> "/images/temp-003.jpg",
      requiredFields |-> <<"badgeId", "issuanceDate", "certificateNumber",
                           "recipientName">>] >>

templatesBasic ==
  << [id |-> "temp-001", name |-> "Professional Certification"],
     [id |-> "temp-002", name |-> "Course Completion"],
     [id |-> "temp-003", name |-> "Award of Excellence"] >>

badgesSeed ==
  << [id |-> "badge-001", name |-> "Gold"],
     [id |-> "badge-002", name |-> "Silver"],
     [id |-> "badge-003", name |-> "Bronze"] >>

signatoriesSeed ==
  << [id |-> "sig-001", name |-> "Dr. Jane Smith", title |-> "Program Director",
      signature |-> "JSmith2025"],
     [id |-> "sig-002", name |-> "Prof. Robert Johnson", title |-> "Department Chair",
      signature |-> "RJohnson"],
     [id |-> "sig-003", name |-> "Alex Williams", title |-> "CEO",
      signature |-> "AWilliams"] >>

\* list.find(e => e.id === v): the index of the first match, 0 for undefined.
Find(list, v) ==
  LET hits == {i \in 1..Len(list) : Str(list[i].id) = v}
  IN  IF hits = {} THEN 0 ELSE Min(hits)

\* fields.includes(f)
Includes(fields, f) == \E i \in 1..Len(fields) : fields[i] = f

\* validateFields testing each field with == null: "" passes.
validateFieldsNullish(obj, fields) ==
  LET missing == {i \in 1..Len(fields) : obj[fields[i]] \in {Undefined, Null}}
  IN  IF missing = {} THEN Null ELSE Str(fields[Min(missing)])

\* validateFields(obj, fields): the first field that is undefined, null or "",
\* as a string, or null.
validateFields(obj, fields) ==
  LET missing == {i \in 1..Len(fields) : obj[fields[i]] \in {Undefined, Null, EmptyString}}
  IN  IF missing = {} THEN Null ELSE Str(fields[Min(missing)])

baseRequiredModule == <<"name", "email">>
baseRequiredCreate == <<"name", "email", "templateId">>
reservedNames == {"badgeId", "expiryDate", "signatoryIds", "issuanceDate"}

----------------------------------------------------------------------------
\* Dates

\* A Date object: year, month (0-based, as Date keeps it) and day of month.
Date(y, m0, d) == [year |-> y, month |-> m0, date |-> d]

IsLeap(y) == (y % 4 = 0 /\ y % 100 # 0) \/ y % 400 = 0

DaysIn(y, m0) ==
  IF m0 = 1 THEN (IF IsLeap(y) THEN 29 ELSE 28)
  ELSE IF m0 \in {3, 5, 8, 10} THEN 30 ELSE 31

\* expDate.setFullYear(y): the day of month that the new year's month does not
\* have rolls over into the next month.
setFullYear(dt, y) ==
  IF dt.date <= DaysIn(y, dt.month)
  THEN Date(y, dt.month, dt.date)
  ELSE Date(y, dt.month + 1, dt.date - DaysIn(y, dt.month))

Digit(n) == <<"0", "1", "2", "3", "4", "5", "6", "7", "8", "9">>[n + 1]
Pad2(n) == Digit(n \div 10) \o Digit(n % 10)
Pad4(n) == Pad2(n \div 100) \o Pad2(n % 100)

\* "YYYY-MM-DD" of a year, a month 1..12 and a day.
Iso(y, m, d) == Pad4(y) \o "-" \o Pad2(m) \o "-" \o Pad2(d)

\* dt.toISOString().split("T")[0]
toISODate(dt) == Iso(dt.year, dt.month + 1, dt.date)

\* new Date().toISOString(), of a clock read to the day.
toISOString(dt) == toISODate(dt) \o "T00:00:00.000Z"

\* emailRegex.test(v) for /^[^\s@]+@[^\s@]+\.[^\s@]+$/ on the tokens of v, each
\* of them "@", ".", " " or a run of other characters.
emailRegexTest(v) ==
  LET s == Tail(v)
  IN  \E i, j \in 1..Len(s) :
        /\ 1 < i /\ i + 1 < j /\ j < Len(s)
        /\ s[i] = "@" /\ s[j] = "."
        /\ \A k \in (1..Len(s)) \ {i} : s[k] \notin {" ", "@"}

----------------------------------------------------------------------------
\* State

VARIABLES
  variant,       \* which service runs: "image" (index.js) or "basic" (part_000)
  templates,     \* the template catalog
  badges,        \* the badge catalog
  signatories,   \* the signatory catalog
  certificates,  \* the certificate store
  uuidCount,     \* how many ids uuidv4 has handed out
  outputFile,    \* whether src/issued/newCertificate.png exists
  alive,         \* the process runs (no uncaught exception yet)
  req,           \* per request: route, body as sent, req.body, position, locals
  res            \* per request: the responses sent, oldest first

vars ==
  <<variant, templates, badges, signatories, certificates, uuidCount,
    outputFile, alive, req, res>>

catalogs == <<variant, templates, badges, signatories>>

Req == 1..NumReq

NoBody == [f \in Fields |-> Undefined]

IdleRequest ==
  [route |-> "none", sent |-> NoBody, body |-> NoBody, pc |-> "idle",
   certificateId |-> 0, finished |-> FALSE]

Init ==
  /\ variant \in {"image", "basic"}
  /\ templates = IF variant = "image" THEN templatesImage ELSE templatesBasic
  /\ badges = badgesSeed
  /\ signatories = signatoriesSeed
  /\ certificates = <<>>
  /\ uuidCount = 0
  /\ outputFile = FALSE
  /\ alive = TRUE
  /\ req = [r \in Req |-> IdleRequest]
  /\ res = [r \in Req |-> <<>>]

\* uuidv4(): a value never handed out before.
uuidv4 == uuidCount + 1

\* The server takes request r off the wire: requests are numbered in arrival order.
Arrives(r) ==
  /\ alive
  /\ req[r].pc = "idle"
  /\ IF r = 1 THEN TRUE ELSE req[r - 1].pc # "idle"

\* res.status(status).json({success, message, ...})
Reply(status, message) ==
  [status |-> status, message |-> message, certificateId |-> 0, data |-> <<>>]

ReplyData(status, data) ==
  [status |-> status, message |-> <<>>, certificateId |-> 0, data |-> data]

\* A handler that answers at once.
Answer(r, route, b, body, response) ==
  /\ req' = [req EXCEPT ![r] = [route |-> route, sent |-> b, body |-> body,
                                pc |-> "done", certificateId |-> 0,
                                finished |-> FALSE]]
  /\ res' = [res EXCEPT ![r] = Append(@, response)]

----------------------------------------------------------------------------
\* GET /api/templates, /api/badges, /api/signatories (both services)

GetTemplates(r) ==
  /\ Arrives(r)
  /\ Answer(r, "GET /api/templates", NoBody, NoBody, ReplyData(200, templates))
  /\ UNCHANGED <<catalogs, certificates, uuidCount, outputFile, alive>>

\* The badge route answering with badges.reverse(), which reverses the catalog
\* in place.
GetBadgesReversing(r) ==
  /\ Arrives(r)
  /\ Answer(r, "GET /api/badges", NoBody, NoBody,
            ReplyData(200, [i \in 1..Len(badges) |-> badges[Len(badges) + 1 - i]]))
  /\ badges' = [i \in 1..Len(badges) |-> badges[Len(badges) + 1 - i]]
  /\ UNCHANGED <<variant, templates, signatories, certificates, uuidCount,
                 outputFile, alive>>

GetBadges(r) ==
  /\ Arrives(r)
  /\ Answer(r, "GET /api/badges", NoBody, NoBody, ReplyData(200, badges))
  /\ UNCHANGED <<catalogs, certificates, uuidCount, outputFile, alive>>

GetSignatories(r) ==
  /\ Arrives(r)
  /\ Answer(r, "GET /api/signatories", NoBody, NoBody, ReplyData(200, signatories))
  /\ UNCHANGED <<catalogs, certificates, uuidCount, outputFile, alive>>

----------------------------------------------------------------------------
\* POST /api/certificates, image-capable service (index.js)

\* Auto-map name to recipientName if the template requires it.
autoMapRecipientName(template, body) ==
  IF Includes(template.requiredFields, "recipientName") /\ Falsy(body["recipientName"])
  THEN [body EXCEPT !["recipientName"] = body["name"]]
  ELSE body

\* Signatory resolution that gives up on the whole list at one unknown id.
resolveSignatoriesAllOrNone(ids) ==
  IF \A k \in 1..Len(ids) : Find(signatories, Str(ids[k])) # 0
  THEN [k \in 1..Len(ids) |->
          LET e == signatories[Find(signatories, Str(ids[k]))]
          IN  [id |-> e.id, name |-> e.name, title |-> e.title]]
  ELSE <<>>

\* signatoryIds.map(find in the catalog, or null).filter(not null)
RECURSIVE resolveSignatories(_)
resolveSignatories(ids) ==
  IF ids = <<>> THEN <<>>
  ELSE LET i == Find(signatories, Str(Head(ids)))
           rest == resolveSignatories(Tail(ids))
       IN  IF i = 0 THEN rest
           ELSE <<[id |-> signatories[i].id, name |-> signatories[i].name,
                   title |-> signatories[i].title]>> \o rest

\* The expiry date of a request that gives none: a year after the clock's date.
defaultExpiryDate(now) == Str(toISODate(setFullYear(now, now.year + 1)))

\* Custom attributes collected from the keys of the body, as the preview does.
customAttributesFromBody(template, body) ==
  LET keys == {k \in Keys(body) :
                 k \notin {"name", "email", "templateId"} \cup reservedNames}
  IN  [k \in keys |-> body[k]]

\* Collect custom attributes: the template's required fields but the reserved ones.
customAttributesOf(template, body) ==
  LET keys == {template.requiredFields[i] : i \in 1..Len(template.requiredFields)}
                 \ reservedNames
  IN  [k \in keys |-> body[k]]

\* badges.find(b => b.id === badgeId)?.name || null, or null for no badgeId
badgeNameOf(badgeId) ==
  IF Falsy(badgeId) \/ Find(badges, badgeId) = 0 THEN Null
  ELSE Str(badges[Find(badges, badgeId)].name)

\* certificates.unshift(certificate)
unshift(store, certificate) == <<certificate>> \o store

\* certificates.push(certificate)
push(store, certificate) == Append(store, certificate)

\* The handler up to its first await, on body b0 with the clock at now: either the
\* 400 it answers with (rejected), or the certificate it assembles.
createSync(b0, now) ==
  LET missingBase == validateFields(b0, baseRequiredCreate)
      ti == Find(templates, b0["templateId"])
      template == templates[ti]
      body == autoMapRecipientName(template, b0)
      missingTemplateField == validateFields(body, template.requiredFields)
      needsSignatories == Includes(template.requiredFields, "signatoryIds")
      certificateSignatories ==
        IF needsSignatories THEN resolveSignatories(Tail(body["signatoryIds"]))
        ELSE <<>>
      today == Str(toISODate(now))
      issuanceDate == IF Falsy(body["issuanceDate"]) THEN today ELSE body["issuanceDate"]
      expiryDate ==
        IF Falsy(body["expiryDate"]) THEN defaultExpiryDate(now) ELSE body["expiryDate"]
      certificate ==
        [id |-> uuidv4,
         name |-> body["name"],
         email |-> body["email"],
         templateId |-> body["templateId"],
         templateName |-> template.name,
         badgeId |-> IF Falsy(body["badgeId"]) THEN Null ELSE body["badgeId"],
         badgeName |-> badgeNameOf(body["badgeId"]),
         expiryDate |-> expiryDate,
         signatories |-> certificateSignatories,
         issuanceDate |-> issuanceDate,
         customAttributes |-> customAttributesOf(template, body),
         status |-> "active",
         createdAt |-> toISOString(now)]
      Rejected(b, message) ==
        [rejected |-> TRUE, body |-> b, response |-> Reply(400, message),
         certificate |-> <<>>]
  IN  IF missingBase # Null
        THEN Rejected(b0, <<"Missing required field: ", missingBase[2]>>)
      ELSE IF ti = 0
        THEN Rejected(b0, <<"Invalid template ID">>)
      ELSE IF missingTemplateField # Null
        THEN Rejected(body, <<"Missing required attribute: ", missingTemplateField[2]>>)
      ELSE IF Includes(template.requiredFields, "badgeId")
              /\ Find(badges, body["badgeId"]) = 0
        THEN Rejected(body, <<"Invalid badge ID">>)
      ELSE IF needsSignatories
              /\ (~IsArray(body["signatoryIds"]) \/ Len(body["signatoryIds"]) = 1)
        THEN Rejected(body, <<"signatoryIds must be a non-empty array">>)
      ELSE IF needsSignatories /\ certificateSignatories = <<>>
        THEN Rejected(body, <<"Invalid signatory IDs provided">>)
      ELSE IF ~emailRegexTest(body["email"])
        THEN Rejected(body, <<"Invalid email format">>)
      ELSE IF Includes(template.requiredFields, "expiryDate") /\ Falsy(body["expiryDate"])
        THEN Rejected(body, <<"Missing required attribute: ", "expiryDate">>)
      ELSE [rejected |-> FALSE, body |-> body, response |-> Reply(200, <<>>),
            certificate |-> <<certificate>>]

\* The request arrives and the handler runs to a 400, or stores the certificate,
\* removes the old image and waits for loadImage.
CreateCertificate(r, b, now) ==
  /\ variant = "image"
  /\ Arrives(r)
  /\ LET out == createSync(b, now)
     IN  IF out.rejected
         THEN /\ Answer(r, "POST /api/certificates", b, out.body, out.response)
              /\ UNCHANGED <<certificates, uuidCount, outputFile>>
         ELSE /\ certificates' = push(certificates, out.certificate[1])
              /\ uuidCount' = uuidCount + 1
              /\ outputFile' = FALSE
              /\ req' = [req EXCEPT ![r] =
                           [route |-> "POST /api/certificates", sent |-> b,
                            body |-> out.body, pc |-> "loadImage",
                            certificateId |-> out.certificate[1].id,
                            finished |-> FALSE]]
              /\ UNCHANGED res
  /\ UNCHANGED <<catalogs, alive>>

\* The continuation answering 200 as soon as the pipe is set up, not from the
\* finish listener.
ImageLoadedAnswersAtOnce(r) ==
  /\ alive
  /\ req[r].pc = "loadImage"
  /\ req' = [req EXCEPT ![r].pc = "writing"]
  /\ outputFile' = TRUE
  /\ res' = [res EXCEPT ![r] =
               Append(@, [status |-> 200,
                          message |-> <<"Certificate generated successfully">>,
                          certificateId |-> req[r].certificateId,
                          data |-> <<>>])]
  /\ UNCHANGED <<catalogs, certificates, uuidCount, alive>>

\* loadImage resolves: the text is drawn, the PNG stream is piped into a write
\* stream on the output path, and the handler returns with a finish listener set.
ImageLoaded(r) ==
  /\ alive
  /\ req[r].pc = "loadImage"
  /\ req' = [req EXCEPT ![r].pc = "writing"]
  /\ outputFile' = TRUE
  /\ UNCHANGED <<catalogs, certificates, uuidCount, alive, res>>

\* loadImage (or a call after it inside the try) throws: the catch answers 500.
ImageFailed(r) ==
  /\ alive
  /\ req[r].pc = "loadImage"
  /\ req' = [req EXCEPT ![r].pc = "done"]
  /\ res' = [res EXCEPT ![r] =
               Append(@, Reply(500, <<"Failed to generate certificate image">>))]
  /\ UNCHANGED <<catalogs, certificates, uuidCount, outputFile, alive>>

\* out emits finish: the listener answers 200 with the path and the id.
WriteFinished(r) ==
  /\ alive
  /\ req[r].pc = "writing"
  /\ req' = [req EXCEPT ![r].pc = "done", ![r].finished = TRUE]
  /\ res' = [res EXCEPT ![r] =
               Append(@, [status |-> 200,
                          message |-> <<"Certificate generated successfully">>,
                          certificateId |-> req[r].certificateId,
                          data |-> <<>>])]
  /\ UNCHANGED <<catalogs, certificates, uuidCount, outputFile, alive>>

\* out emits error (the disk is full, the path cannot be opened): no listener is
\* set for it, so the event is thrown as an uncaught exception and the process ends.
WriteFailed(r) ==
  /\ alive
  /\ req[r].pc = "writing"
  /\ alive' = FALSE
  /\ UNCHANGED <<catalogs, certificates, uuidCount, outputFile, req, res>>

----------------------------------------------------------------------------
\* POST /api/certificates/preview, image-capable service (index.js)

\* The keys of the body that are neither base keys nor the known ones.
previewAttributesOf(body) ==
  LET keys == {k \in Keys(body) :
                 /\ ~Includes(baseRequiredModule, k)
                 /\ k \notin ({"templateId"} \cup reservedNames)}
  IN  [k \in keys |-> body[k]]

\* The whole handler on body: the response, and whether uuidv4 was called.
\* previewHtml and previewDate, text made of the same values, are left out of
\* the preview record.
previewSync(body) ==
  LET missingBase == validateFields(body, baseRequiredModule)
      ti == Find(templates, body["templateId"])
      template == templates[ti]
      missingTemplateField == validateFields(body, template.requiredFields)
      needsBadge == Includes(template.requiredFields, "badgeId")
      needsSignatories == Includes(template.requiredFields, "signatoryIds")
      previewSignatories ==
        IF needsSignatories THEN resolveSignatories(Tail(body["signatoryIds"]))
        ELSE <<>>
      preview ==
        [previewId |-> uuidv4,
         name |-> body["name"],
         templateId |-> body["templateId"],
         templateName |-> template.name,
         badgeId |-> IF Falsy(body["badgeId"]) THEN Null ELSE body["badgeId"],
         badgeName |-> IF needsBadge THEN Str(badges[Find(badges, body["badgeId"])].name)
                       ELSE Null,
         expiryDate |-> IF Falsy(body["expiryDate"]) THEN Null ELSE body["expiryDate"],
         signatories |-> previewSignatories,
         issuanceDate |-> body["issuanceDate"],
         customAttributes |-> previewAttributesOf(body)]
      Rejected(message) == [uuid |-> FALSE, response |-> Reply(400, message)]
  IN  IF missingBase # Null
        THEN Rejected(<<"Missing required field: ", missingBase[2]>>)
      ELSE IF ti = 0
        THEN Rejected(<<"Invalid template ID">>)
      ELSE IF missingTemplateField # Null
        THEN Rejected(<<"Missing required attribute: ", missingTemplateField[2]>>)
      ELSE IF needsBadge /\ Find(badges, body["badgeId"]) = 0
        THEN Rejected(<<"Invalid badge ID">>)
      ELSE IF needsSignatories
              /\ (~IsArray(body["signatoryIds"]) \/ Len(body["signatoryIds"]) = 1)
        THEN Rejected(<<"signatoryIds must be a non-empty array">>)
      ELSE IF Falsy(body["issuanceDate"])
        \* req.body.issuanceDate || today: no today is in scope here, the
        \* ReferenceError reaches the framework's error handler.
        THEN [uuid |-> TRUE,
              response |-> Reply(500, <<"ReferenceError: today is not defined">>)]
      ELSE [uuid |-> TRUE, response |-> ReplyData(200, <<preview>>)]

PreviewCertificate(r, b) ==
  /\ variant = "image"
  /\ Arrives(r)
  /\ LET out == previewSync(b)
     IN  /\ Answer(r, "POST /api/certificates/preview", b, b, out.response)
         /\ uuidCount' = IF out.uuid THEN uuidCount + 1 ELSE uuidCount
  /\ UNCHANGED <<catalogs, certificates, outputFile, alive>>

----------------------------------------------------------------------------
\* The basic service (part_000)

\* signatoryIds.map(find or null).filter(not null) if an array is given
basicSignatories(body) ==
  IF ~Falsy(body["signatoryIds"]) /\ IsArray(body["signatoryIds"])
  THEN resolveSignatories(Tail(body["signatoryIds"]))
  ELSE <<>>

basicCreateSync(body, now) ==
  LET ti == Find(templates, body["templateId"])
      bi == Find(badges, body["badgeId"])
      today == Str(toISODate(now))
      certificate ==
        [id |-> uuidv4,
         name |-> body["name"],
         email |-> body["email"],
         templateId |-> body["templateId"],
         templateName |-> templates[ti].name,
         badgeId |-> body["badgeId"],
         badgeName |-> Str(badges[bi].name),
         signatories |-> basicSignatories(body),
         issuanceDate |-> IF Falsy(body["issuanceDate"]) THEN today
                          ELSE body["issuanceDate"],
         expiryDate |-> IF Falsy(body["expiryDate"]) THEN defaultExpiryDate(now)
                        ELSE body["expiryDate"],
         status |-> "active",
         createdAt |-> toISOString(now)]
      Rejected(message) ==
        [rejected |-> TRUE, response |-> Reply(400, message), certificate |-> <<>>]
  IN  IF Falsy(body["name"]) \/ Falsy(body["email"]) \/ Falsy(body["templateId"])
         \/ Falsy(body["badgeId"])
        THEN Rejected(<<"Missing required fields: name, email, templateId, and badgeId are required">>)
      ELSE IF ~emailRegexTest(body["email"])
        THEN Rejected(<<"Invalid email format">>)
      ELSE IF ti = 0
        THEN Rejected(<<"Invalid template ID">>)
      ELSE IF bi = 0
        THEN Rejected(<<"Invalid badge ID">>)
      ELSE [rejected |-> FALSE, response |-> ReplyData(201, <<certificate>>),
            certificate |-> <<certificate>>]

BasicCreateCertificate(r, b, now) ==
  /\ variant = "basic"
  /\ Arrives(r)
  /\ LET out == basicCreateSync(b, now)
     IN  IF out.rejected
         THEN /\ Answer(r, "POST /api/certificates", b, b, out.response)
              /\ UNCHANGED <<certificates, uuidCount>>
         ELSE /\ certificates' = push(certificates, out.certificate[1])
              /\ uuidCount' = uuidCount + 1
              /\ req' = [req EXCEPT ![r] =
                           [route |-> "POST /api/certificates", sent |-> b,
                            body |-> b, pc |-> "done",
                            certificateId |-> out.certificate[1].id,
                            finished |-> FALSE]]
              /\ res' = [res EXCEPT ![r] = Append(@, out.response)]
  /\ UNCHANGED <<catalogs, outputFile, alive>>

basicPreviewSync(body) ==
  LET ti == Find(templates, body["templateId"])
      bi == Find(badges, body["badgeId"])
      preview ==
        [previewId |-> uuidv4,
         name |-> body["name"],
         templateId |-> body["templateId"],
         templateName |-> templates[ti].name,
         badgeId |-> body["badgeId"],
         badgeName |-> Str(badges[bi].name),
         signatories |-> basicSignatories(body)]
      Rejected(message) == [uuid |-> FALSE, response |-> Reply(400, message)]
  IN  IF Falsy(body["name"]) \/ Falsy(body["templateId"]) \/ Falsy(body["badgeId"])
        THEN Rejected(<<"Name, template ID, and badge ID are required for preview">>)
      ELSE IF ti = 0
        THEN Rejected(<<"Invalid template ID">>)
      ELSE IF bi = 0
        THEN Rejected(<<"Invalid badge ID">>)
      ELSE [uuid |-> TRUE, response |-> ReplyData(200, <<preview>>)]

BasicPreviewCertificate(r, b) ==
  /\ variant = "basic"
  /\ Arrives(r)
  /\ LET out == basicPreviewSync(b)
     IN  /\ Answer(r, "POST /api/certificates/preview", b, b, out.response)
         /\ uuidCount' = IF out.uuid THEN uuidCount + 1 ELSE uuidCount
  /\ UNCHANGED <<catalogs, certificates, outputFile, alive>>

----------------------------------------------------------------------------
\* Requests and clocks

\* A body that passes every check of every template, and says more than any needs.
ValidBody(tid) ==
  [f \in Fields |->
     CASE f = "name" -> Str("Ann")
       [] f = "email" -> <<"string", "ann", "@", "example", ".", "org">>
       [] f = "templateId" -> Str(tid)
       [] f = "badgeId" -> Str("badge-002")
       [] f = "expiryDate" -> Str("2030-01-01")
       [] f = "signatoryIds" -> Arr(<<"sig-002", "bad-id", "sig-001">>)
       [] f = "issuanceDate" -> Str("2026-11-04")
       [] f = "certificateNumber" -> Str("CN-7")
       [] f = "recipientName" -> Str("Ann Lee")
       [] OTHER -> Undefined]

TemplateIds == {"temp-001", "temp-002", "temp-003"}

\* What one property of a body is changed to.
Deviations ==
  ((Fields \ {"note"}) \X {Undefined, Null, EmptyString})
  \cup {<<"email", <<"string", "ann", ".", "org">>>>,
        <<"templateId", Str("temp-999")>>,
        <<"badgeId", Str("badge-999")>>,
        <<"expiryDate", Zero>>,
        <<"signatoryIds", Arr(<<>>)>>,
        <<"signatoryIds", Arr(<<"bad-id">>)>>,
        <<"signatoryIds", Arr(<<"sig-003">>)>>,
        <<"signatoryIds", Str("sig-001")>>,
        <<"issuanceDate", Zero>>,
        <<"issuanceDate", Str("2020-01-01")>>,
        <<"note", Str("x")>>}

\* Properties that are present and fail a later check.
PresentInvalid ==
  {<<"email", <<"string", "ann", ".", "org">>>>,
   <<"badgeId", Str("badge-999")>>,
   <<"signatoryIds", Arr(<<"bad-id">>)>>}

\* The valid bodies, the bodies one property away from one, the bodies that lack
\* one property and fail a later check too, and the bodies that leave both dates
\* to the service.
Bodies ==
  {ValidBody(t) : t \in TemplateIds}
  \cup {[ValidBody(t) EXCEPT ![d[1]] = d[2]] : t \in TemplateIds, d \in Deviations}
  \cup {[ValidBody(t) EXCEPT ![d[1]] = d[2], ![f] = Undefined] :
          t \in TemplateIds, d \in PresentInvalid, f \in Fields \ {"note"}}
  \cup {[ValidBody(t) EXCEPT !["expiryDate"] = Undefined, !["issuanceDate"] = v] :
          t \in TemplateIds, v \in {Undefined, Zero}}

\* The bodies of the runs with several requests.
FewBodies ==
  {ValidBody("temp-001"),
   [ValidBody("temp-003") EXCEPT !["expiryDate"] = Undefined],
   [ValidBody("temp-002") EXCEPT !["certificateNumber"] = Undefined]}

\* What new Date() reads: 29 February 2024, 4 November 2026.
Clock == {Date(2024, 1, 29), Date(2026, 10, 4)}

----------------------------------------------------------------------------
\* Specifications

\* Any requests, in any interleaving of their steps.
Next ==
  \E r \in Req :
    \/ GetTemplates(r)
    \/ GetBadges(r)
    \/ GetSignatories(r)
    \/ \E b \in FewBodies, now \in Clock : CreateCertificate(r, b, now)
    \/ ImageLoaded(r)
    \/ ImageFailed(r)
    \/ WriteFinished(r)
    \/ WriteFailed(r)
    \/ \E b \in FewBodies : PreviewCertificate(r, b)
    \/ \E b \in FewBodies, now \in Clock : BasicCreateCertificate(r, b, now)
    \/ \E b \in FewBodies : BasicPreviewCertificate(r, b)

Spec == Init /\ [][Next]_vars

\* Every body received so far is the document d.
OneDocument(d) == \A q \in Req : req[q].sent \in {NoBody, d}

\* Two requests of one client that posts one document, whichever it is.
NextV ==
  \E r \in {1, 2} :
    \/ GetTemplates(r)
    \/ GetBadges(r)
    \/ GetSignatories(r)
    \/ \E b \in Bodies, now \in Clock : OneDocument(b) /\ CreateCertificate(r, b, now)
    \/ ImageLoaded(r)
    \/ ImageFailed(r)
    \/ WriteFinished(r)
    \/ WriteFailed(r)
    \/ \E b \in Bodies : OneDocument(b) /\ PreviewCertificate(r, b)
    \/ \E b \in Bodies, now \in Clock : OneDocument(b) /\ BasicCreateCertificate(r, b, now)
    \/ \E b \in Bodies : OneDocument(b) /\ BasicPreviewCertificate(r, b)

SpecV == Init /\ [][NextV]_vars

----------------------------------------------------------------------------
\* Properties

CreateRoute == "POST /api/certificates"
PreviewRoute == "POST /api/certificates/preview"

RequiredOf(template) ==
  {template.requiredFields[i] : i \in 1..Len(template.requiredFields)}

Absent(v) == v \in {Undefined, Null, EmptyString}

\* Body b names template and supplies name, email and every field the template
\* requires except f, which is absent, null or "".
LacksOnly(b, template, f) ==
  /\ b["templateId"] = Str(template.id)
  /\ f \in RequiredOf(template)
  /\ Absent(b[f])
  /\ \A g \in ({"name", "email"} \cup RequiredOf(template)) \ {f} : ~Absent(b[g])

\* The one response of request r is a 400 whose message names field f.
Names400(r, f) ==
  /\ Len(res[r]) = 1
  /\ res[r][1].status = 400
  /\ Len(res[r][1].message) = 2
  /\ res[r][1].message[2] = f

Answered(r, S) == \E k \in 1..Len(res[r]) : res[r][k].status \in S

\* No request is being handled.
Quiet == \A r \in Req : req[r].pc \in {"idle", "done"}

\* C2 as stated: in the image-capable service the store holds no certificate of a
\* request answered 400 or 500, and, once every request is answered, one record
\* per request answered with success.
C2_AllOrNothing ==
  variant = "image" =>
    /\ \A r \in Req :
         (req[r].route = CreateRoute /\ Answered(r, {400, 500}))
           => \A i \in 1..Len(certificates) : certificates[i].id # req[r].certificateId
    /\ Quiet => Len(certificates) =
                  Cardinality({r \in Req : req[r].route = CreateRoute /\ Answered(r, {200})})

\* The id is the id of a catalog signatory.
InCatalog(id) == \E i \in 1..Len(signatories) : signatories[i].id = id

\* The id, name and title of the catalog signatory with this id.
CatalogEntry(id) ==
  LET e == CHOOSE e \in {signatories[i] : i \in 1..Len(signatories)} : e.id = id
  IN  [id |-> e.id, name |-> e.name, title |-> e.title]

\* The entries of the array v that are in the catalog, in the order of v.
KnownSignatories(v) ==
  LET kept == SelectSeq(Tail(v), InCatalog)
  IN  [k \in 1..Len(kept) |-> CatalogEntry(kept[k])]

\* v is no array, an empty array, or an array with no catalog id in it.
NoSignatory(v) ==
  ~IsArray(v) \/ \A k \in 2..Len(v) : ~InCatalog(v[k])

\* Body b, for the first template (the one that requires signatoryIds), passes
\* every check but the ones on signatoryIds.
PassesOtherChecks(b) ==
  /\ b["templateId"] = Str(templates[1].id)
  /\ \A f \in {"name", "email", "expiryDate", "issuanceDate", "certificateNumber"} :
       ~Absent(b[f])
  /\ emailRegexTest(b["email"])
  /\ Find(badges, b["badgeId"]) # 0
  /\ ~Falsy(b["expiryDate"])

\* C3: such a request is answered 400 (and stores nothing) exactly when
\* signatoryIds is no non-empty array or holds no catalog id; otherwise its
\* certificate is stored with the catalog entries of the list, in request order,
\* and the one answer it gets, unless image generation fails, is the 200.
C3_SignatoryRule ==
  variant = "image" =>
    \A r \in Req :
      (req[r].route = CreateRoute /\ PassesOtherChecks(req[r].sent))
        => IF NoSignatory(req[r].sent["signatoryIds"])
           THEN /\ Len(res[r]) = 1 /\ res[r][1].status = 400
                /\ req[r].certificateId = 0
           ELSE /\ \E i \in 1..Len(certificates) :
                     /\ certificates[i].id = req[r].certificateId
                     /\ certificates[i].signatories =
                          KnownSignatories(req[r].sent["signatoryIds"])
                /\ ~Answered(r, {400})
                /\ (req[r].pc = "done" /\ ~Answered(r, {500}))
                     => (Len(res[r]) = 1 /\ res[r][1].status = 200)

\* A request listing sig-002, an unknown id and sig-001 was answered 200 and its
\* certificate holds sig-002 and sig-001, in that order.
C3_Witness ==
  /\ variant = "image"
  /\ \E r \in Req : \E i \in 1..Len(certificates) :
       /\ req[r].route = CreateRoute
       /\ PassesOtherChecks(req[r].sent)
       /\ req[r].sent["signatoryIds"] = Arr(<<"sig-002", "bad-id", "sig-001">>)
       /\ Answered(r, {200})
       /\ certificates[i].id = req[r].certificateId
       /\ Len(certificates[i].signatories) = 2
       /\ certificates[i].signatories[1].id = "sig-002"
       /\ certificates[i].signatories[2].id = "sig-001"

\* The years the dates of the bodies and of the clock lie in.
CalendarYears == 2019..2031

\* exp is the date string of the same month and day as the date string iss, one
\* year later.
OneYearAfter(iss, exp) ==
  \E y \in CalendarYears, m \in 1..12, d \in 1..31 :
    iss = Str(Iso(y, m, d)) /\ exp = Str(Iso(y + 1, m, d))

\* The template that body b names does not require expiryDate.
ExpiryOptional(b) ==
  IF variant = "basic" THEN TRUE
  ELSE /\ Find(templates, b["templateId"]) # 0
       /\ ~Includes(templates[Find(templates, b["templateId"])].requiredFields,
                    "expiryDate")

\* C4 as stated: in both services, the certificate of a creation request that
\* gives no expiryDate, for a template that does not require one, expires one
\* calendar year after its issuanceDate.
C4_ExpiryOneYearAfterIssuance ==
  \A r \in Req : \A i \in 1..Len(certificates) :
    ( /\ req[r].route = CreateRoute
      /\ certificates[i].id = req[r].certificateId
      /\ req[r].sent["expiryDate"] = Undefined
      /\ ExpiryOptional(req[r].sent) )
      => OneYearAfter(certificates[i].issuanceDate, certificates[i].expiryDate)

\* C5: in the image-capable service the keys of every stored certificate's
\* customAttributes are the requiredFields of its template but badgeId,
\* expiryDate, signatoryIds and issuanceDate.
C5_CustomAttributeKeys ==
  variant = "image" =>
    \A i \in 1..Len(certificates) :
      LET t == Find(templates, certificates[i].templateId)
      IN  /\ t # 0
          /\ DOMAIN certificates[i].customAttributes =
               RequiredOf(templates[t])
                 \ {"badgeId", "expiryDate", "signatoryIds", "issuanceDate"}

\* A request that carried the extra property note has its certificate stored,
\* with certificateNumber and recipientName and nothing else as attributes.
C5_Witness ==
  /\ variant = "image"
  /\ \E r \in Req : \E i \in 1..Len(certificates) :
       /\ req[r].sent["note"] # Undefined
       /\ certificates[i].id = req[r].certificateId
       /\ DOMAIN certificates[i].customAttributes = {"certificateNumber", "recipientName"}

\* The field that the 400 of request r reports missing, "" if r got no such 400.
MissingFieldOf(r) ==
  IF \E k \in 1..Len(res[r]) : res[r][k].status = 400 /\ Len(res[r][k].message) = 2
  THEN LET k == CHOOSE k \in 1..Len(res[r]) :
                  res[r][k].status = 400 /\ Len(res[r][k].message) = 2
       IN  res[r][k].message[2]
  ELSE ""

\* C6 as stated: in the image-capable service a preview request and a creation
\* request with the same body are rejected for a missing required field in the
\* same cases, and name the same field.
C6_PreviewSameContract ==
  variant = "image" =>
    \A r1, r2 \in Req :
      ( /\ req[r1].route = CreateRoute
        /\ req[r2].route = PreviewRoute
        /\ req[r1].sent = req[r2].sent )
        => MissingFieldOf(r1) = MissingFieldOf(r2)

\* The handling of request r is over: it ran to its end, or the process ended
\* under it.
Ended(r) == req[r].pc = "done" \/ (~alive /\ req[r].pc # "idle")

\* C7 as stated, as what it says of the requests whose handling is over: a
\* creation request to the image-capable service gets no second response, and
\* has its one response when nothing more can happen to it.
C7_ExactlyOneResponse ==
  variant = "image" =>
    \A r \in Req :
      req[r].route = CreateRoute
        => /\ Len(res[r]) <= 1
           /\ Ended(r) => Len(res[r]) = 1

\* C8: a creation request of the image-capable service has its 200 only when the
\* write stream of its PNG has finished.
C8_SuccessAfterFinish ==
  variant = "image" =>
    \A r \in Req :
      (req[r].route = CreateRoute /\ Answered(r, {200})) => req[r].finished

\* Two creation requests were being handled at once; one has its 200, after its
\* stream finished, and the other still writes.
C8_Witness ==
  /\ variant = "image"
  /\ \E r, q \in Req :
       /\ req[r].route = CreateRoute /\ Answered(r, {200}) /\ req[r].finished
       /\ req[q].pc = "writing" /\ ~req[q].finished

\* C9 as stated: in the image-capable service a 500 answers only a creation
\* request whose image generation failed (its certificate was assembled); every
\* other response that is no success is a 400 with a message.
C9_Only500IsImageFailure ==
  variant = "image" =>
    \A r \in Req : \A k \in 1..Len(res[r]) :
      \/ res[r][k].status = 200
      \/ res[r][k].status = 400 /\ res[r][k].message # <<>>
      \/ /\ res[r][k].status = 500
         /\ req[r].route = CreateRoute
         /\ req[r].certificateId # 0

\* No two records of the store have the same id.
DistinctIds(store) ==
  \A i, j \in 1..Len(store) : i # j => store[i].id # store[j].id

\* C10: in both services every step leaves the store as it is or appends one
\* record to it, the records it held staying where they were, and the ids of the
\* records are distinct.
C10_AppendOnly ==
  [][ /\ Len(certificates') \in {Len(certificates), Len(certificates) + 1}
      /\ SubSeq(certificates', 1, Len(certificates)) = certificates
      /\ DistinctIds(certificates') ]_vars

\* The store holds two records with different ids, of two creation requests that
\* have both run to their end.
C10_Witness ==
  /\ Len(certificates) = 2
  /\ certificates[1].id # certificates[2].id
  /\ \A r \in Req : req[r].pc = "done"

\* The catalog that the service seeds at startup and a GET route answers with.
SeededCatalog(route) ==
  CASE route = "GET /api/templates" ->
         IF variant = "image" THEN templatesImage ELSE templatesBasic
    [] route = "GET /api/badges" -> badgesSeed
    [] route = "GET /api/signatories" -> signatoriesSeed

GetRoutes == {"GET /api/templates", "GET /api/badges", "GET /api/signatories"}

\* C11: in both services, whatever requests came before, the three catalogs are
\* the seeded lists, entry for entry and in order, and every GET of a catalog
\* was answered 200 with the seeded list of its route.
C11_CatalogsAsSeeded ==
  /\ templates = SeededCatalog("GET /api/templates")
  /\ badges = SeededCatalog("GET /api/badges")
  /\ signatories = SeededCatalog("GET /api/signatories")
  /\ \A r \in Req :
       req[r].route \in GetRoutes
         => /\ Len(res[r]) = 1
            /\ res[r][1].status = 200
            /\ res[r][1].data = SeededCatalog(req[r].route)

\* A creation request without recipientName had it filled in from name and its
\* certificate stored; the GET of the templates that came after it was answered
\* with the three seeded templates.
C11_Witness ==
  /\ variant = "image"
  /\ \E r, q \in Req :
       /\ r < q
       /\ req[r].route = CreateRoute
       /\ req[r].sent["recipientName"] = Undefined
       /\ req[r].body["recipientName"] = req[r].sent["name"]
       /\ req[r].certificateId # 0
       /\ req[q].route = "GET /api/templates"
       /\ Len(res[q]) = 1
       /\ res[q][1].data = templatesImage

\* Certificate c names a catalog template, by id and by name.
RefersToTemplate(c) ==
  \E i \in 1..Len(templates) :
    c.templateId = Str(templates[i].id) /\ c.templateName = templates[i].name

\* Certificate c has no badge, or names a catalog badge by id and by name.
RefersToBadge(c) ==
  \/ c.badgeId = Null /\ c.badgeName = Null
  \/ \E i \in 1..Len(badges) :
       c.badgeId = Str(badges[i].id) /\ c.badgeName = Str(badges[i].name)

\* Every signatory of certificate c is the id, name and title of a catalog one.
RefersToSignatories(c) ==
  \A k \in 1..Len(c.signatories) :
    \E i \in 1..Len(signatories) :
      c.signatories[k] = [id |-> signatories[i].id, name |-> signatories[i].name,
                          title |-> signatories[i].title]

\* C12 as stated: in the image-capable service every stored certificate refers
\* to catalog entries only: its template, its badge if it has one, and each of
\* its signatories.
C12_RefersToCatalogOnly ==
  variant = "image" =>
    \A i \in 1..Len(certificates) :
      /\ RefersToTemplate(certificates[i])
      /\ RefersToBadge(certificates[i])
      /\ RefersToSignatories(certificates[i])

====
